---- MODULE Spec2Model ----
(***************************************************************************)
(* Model of src/lang/lexer.rs: the Token alphabet, the Lexer struct and    *)
(* Lexer::next_line.  A String is a sequence of one-character strings, a   *)
(* Vec<Token> is a sequence of tokens, and i8 arithmetic keeps its width:  *)
(* an overflowing i8 operation panics when the build has overflow checks   *)
(* (the dev profile) and wraps in two's complement when it has not (the    *)
(* release profile).                                                       *)
(***************************************************************************)
EXTENDS Integers, Sequences, FiniteSets, TLC

(* ------------------------------ bounds --------------------------------- *)
\* Longest single line enumerated exhaustively over ScanAlphabet.
MaxLen == 3
\* Longest stored sequence of lines.
MaxLines == 258
\* Every number of stored lines up to this one is enumerated.
MaxFewLines == 6
\* Number of calls a caller makes beyond the number of stored lines.
MaxOverCalls == 3

(* ------------------------------ i8 ------------------------------------- *)
I8Max == 127
I8Min == -I8Max - 1
I8Card == I8Max - I8Min + 1

InI8(x) == I8Min <= x /\ x <= I8Max

\* Two's complement wrap of a mathematical integer into i8.
WrapI8(x) == ((x - I8Min) % I8Card) + I8Min

(* ------------------------------ Token ---------------------------------- *)
LParen == <<"LParen">>
RParen == <<"RParen">>
Plus == <<"Plus">>
Minus == <<"Minus">>
Times == <<"Times">>
Divide == <<"Divide">>
Number(n) == <<"Number", n>>
Point == <<"Point">>
Comment == <<"Comment">>
None == <<"None">>
NaN == <<"NaN">>
Whitespace == <<"Whitespace">>

(* ------------------------------ String --------------------------------- *)
\* String::new()
EmptyString == <<>>

is_empty(s) == Len(s) = 0

starts_with(s, prefix) ==
    /\ Len(s) >= Len(prefix)
    /\ \A i \in 1..Len(prefix) : s[i] = prefix[i]

(* ------------------------------ Lexer ---------------------------------- *)
\* Lexer::new
new(ls) == [lines |-> ls, line |-> 0, count |-> 0, token |-> 0]

\* TokenOf with the arm of '8' copied from the arm of '9'.
TokenOf_CopiedArm(c) ==
    CASE c = "(" -> LParen
      [] c = ")" -> RParen
      [] c = "+" -> Plus
      [] c = "-" -> Minus
      [] c = "*" -> Times
      [] c = "/" -> Divide
      [] c = "0" -> Number(0)
      [] c = "1" -> Number(1)
      [] c = "2" -> Number(2)
      [] c = "3" -> Number(3)
      [] c = "4" -> Number(4)
      [] c = "5" -> Number(5)
      [] c = "6" -> Number(6)
      [] c = "7" -> Number(7)
      [] c = "8" -> Number(9)
      [] c = "9" -> Number(9)
      [] c = "." -> Point
      [] c = " " -> Whitespace
      [] OTHER -> NaN

\* The match of next_line: one arm per character.
TokenOf(c) ==
    CASE c = "(" -> LParen
      [] c = ")" -> RParen
      [] c = "+" -> Plus
      [] c = "-" -> Minus
      [] c = "*" -> Times
      [] c = "/" -> Divide
      [] c = "0" -> Number(0)
      [] c = "1" -> Number(1)
      [] c = "2" -> Number(2)
      [] c = "3" -> Number(3)
      [] c = "4" -> Number(4)
      [] c = "5" -> Number(5)
      [] c = "6" -> Number(6)
      [] c = "7" -> Number(7)
      [] c = "8" -> Number(8)
      [] c = "9" -> Number(9)
      [] c = "." -> Point
      [] c = " " -> Whitespace
      [] OTHER -> NaN

\* for c in line.chars() { match c { ... tokens.push(..) } }, from position i.
RECURSIVE ScanChars(_, _, _)
ScanChars(tokens, s, i) ==
    IF i > Len(s) THEN tokens
    ELSE ScanChars(Append(tokens, TokenOf(s[i])), s, i + 1)

\* Classify without the is_empty early return.
Classify_NoEmptyCheck(s) ==
    IF starts_with(s, <<"/", "/">>) THEN <<Comment>>
    ELSE ScanChars(<<>>, s, 1)

\* Classify without the starts_with("//") early return.
Classify_NoCommentCheck(s) ==
    IF is_empty(s) THEN <<None>>
    ELSE ScanChars(<<>>, s, 1)

\* Classify pushing Comment and scanning on instead of returning.
Classify_CommentThenScan(s) ==
    IF is_empty(s) THEN <<None>>
    ELSE IF starts_with(s, <<"/", "/">>) THEN ScanChars(<<Comment>>, s, 1)
    ELSE ScanChars(<<>>, s, 1)

\* The part of next_line after the lookup: the tokens returned for `s`.
Classify(s) ==
    IF is_empty(s) THEN <<None>>
    ELSE IF starts_with(s, <<"/", "/">>) THEN <<Comment>>
    ELSE ScanChars(<<>>, s, 1)

\* The lookup loop of next_line; `target` is self.line - 1.  The i8 counter
\* `count` starts at 0 and is incremented after every entry that does not
\* match, so the loop visits entry i (1-based) with count = CountAt(i), stops
\* at the first entry whose count equals target, and otherwise runs out.
\* Yields the line found (EmptyString when the loop runs out), the entry it
\* stopped at (0 when none) and whether a `count += 1` panicked.
CountAt(i) == WrapI8(i - 1)

Lookup(ls, target, checks) ==
    LET n == Len(ls)
        hits == {i \in 1..n : CountAt(i) = target}
        stop == IF hits = {} THEN n + 1
                ELSE CHOOSE i \in hits : \A j \in hits : i <= j
        overflowing == {i \in 1..(stop - 1) : ~InI8(CountAt(i) + 1)}
    IN  IF checks /\ overflowing # {}
        THEN [line |-> EmptyString, found |-> 0, panicked |-> TRUE]
        ELSE IF stop <= n
        THEN [line |-> ls[stop], found |-> stop, panicked |-> FALSE]
        ELSE [line |-> EmptyString, found |-> 0, panicked |-> FALSE]

Panic(self) == [self |-> self, panicked |-> TRUE, found |-> 0, ret |-> <<>>]

\* next_line keeping its loop counter in the field self.count.
next_line_FieldCount(self, checks) ==
    IF ~InI8(self.line + 1) /\ checks THEN Panic(self)
    ELSE LET self1 == [self EXCEPT !.line = WrapI8(self.line + 1)]
         IN  IF ~InI8(self1.line - 1) /\ checks THEN Panic(self1)
             ELSE LET r == Lookup(self1.lines, WrapI8(self1.line - 1), checks)
                      n == IF r.found = 0 THEN Len(self1.lines) ELSE r.found - 1
                  IN  IF r.panicked THEN Panic(self1)
                      ELSE [self |-> [self1 EXCEPT !.count = WrapI8(n)],
                            panicked |-> FALSE,
                            found |-> r.found, ret |-> Classify(r.line)]

\* next_line resuming the scan at the field self.token, the number of tokens
\* produced by the call before.
next_line_TokenOffset(self, checks) ==
    IF ~InI8(self.line + 1) /\ checks THEN Panic(self)
    ELSE LET self1 == [self EXCEPT !.line = WrapI8(self.line + 1)]
         IN  IF ~InI8(self1.line - 1) /\ checks THEN Panic(self1)
             ELSE LET r == Lookup(self1.lines, WrapI8(self1.line - 1), checks)
                      rest == SubSeq(r.line, self1.token + 1, Len(r.line))
                      tokens == Classify(rest)
                  IN  IF r.panicked THEN Panic(self1)
                      ELSE [self |-> [self1 EXCEPT !.token = Len(tokens)],
                            panicked |-> FALSE,
                            found |-> r.found, ret |-> tokens]

\* Lexer::next_line on the Lexer `self`, in a build with overflow checks
\* (`checks`) or without: the Lexer afterwards, whether the call panicked,
\* the entry the lookup stopped at, and the tokens returned.
next_line(self, checks) ==
    IF ~InI8(self.line + 1) /\ checks THEN Panic(self)
    ELSE LET self1 == [self EXCEPT !.line = WrapI8(self.line + 1)]
         IN  IF ~InI8(self1.line - 1) /\ checks THEN Panic(self1)
             ELSE LET r == Lookup(self1.lines, WrapI8(self1.line - 1), checks)
                  IN  IF r.panicked THEN Panic(self1)
                      ELSE [self |-> self1, panicked |-> FALSE,
                            found |-> r.found, ret |-> Classify(r.line)]

(* ------------------------------ inputs --------------------------------- *)
RECURSIVE StringsUpTo(_, _)
StringsUpTo(alphabet, n) ==
    IF n = 0 THEN {EmptyString}
    ELSE LET shorter == StringsUpTo(alphabet, n - 1)
         IN  shorter \cup {Append(s, c) : s \in shorter, c \in alphabet}

ScanAlphabet == {"/", "1", "+", " ", "a", "."}

\* The lines of the repository's tests, and one line with every digit.
TestLines ==
    { <<"/", "/", " ", "1">>,
      <<"(", "+", "-", ")", " ", "*", "/", ".">>,
      <<"1", "*", "(", "-", "2", ".", "3", "+", "2", ")">>,
      <<"0", "1", "2", "3", "4", "5", "6", "7", "8", "9">> }

\* Contents repeated, in this order, by the long inputs.
Palette ==
    << <<"1", "+", "2">>, <<"/", "/", " ", "x">>, EmptyString,
       <<"(", "a", ")">>, <<"9", ".", "5", " ">> >>

CycleLines(n) == [i \in 1..n |-> Palette[((i - 1) % Len(Palette)) + 1]]

\* Numbers of stored lines: the small ones, and those around the two places
\* where an i8 counter of lines overflows (I8Max) and comes round (I8Card).
LineCounts ==
    (0..MaxFewLines) \cup ((I8Max - 1)..(I8Max + 2)) \cup ((I8Card - 2)..MaxLines)

Inputs ==
    {<<s>> : s \in StringsUpTo(ScanAlphabet, MaxLen) \cup TestLines}
        \cup {CycleLines(n) : n \in LineCounts}

(* ------------------------------ state ---------------------------------- *)
VARIABLES
    self,             \* the Lexer
    overflow_checks,  \* whether the build panics on integer overflow
    status,           \* "ok", or "panicked" once a call has panicked
    calls,            \* number of next_line calls made so far
    found,            \* entry the last call's lookup stopped at (0: none)
    result,           \* tokens returned by the last call
    returned          \* per entry, the tokens last returned for it (<<>>: none)

vars == <<self, overflow_checks, status, calls, found, result, returned>>

Init ==
    /\ \E ls \in Inputs :
          /\ self = new(ls)
          /\ returned = [i \in 1..Len(ls) |-> <<>>]
    /\ overflow_checks \in BOOLEAN
    /\ status = "ok"
    /\ calls = 0
    /\ found = 0
    /\ result = <<>>

\* One call of lexer.next_line() by the owner of the Lexer.
NextLine ==
    /\ status = "ok"
    /\ calls < Len(self.lines) + MaxOverCalls
    /\ LET r == next_line(self, overflow_checks)
       IN  /\ self' = r.self
           /\ status' = IF r.panicked THEN "panicked" ELSE "ok"
           /\ found' = r.found
           /\ result' = r.ret
           /\ returned' = IF r.found = 0 THEN returned
                          ELSE [returned EXCEPT ![r.found] = r.ret]
    /\ calls' = calls + 1
    /\ UNCHANGED overflow_checks

Next == NextLine

Spec == Init /\ [][Next]_vars

(* ------------------------------ claims --------------------------------- *)
\* The first two characters of a line are '/' '/'.
IsCommentLine(s) == Len(s) >= 2 /\ s[1] = "/" /\ s[2] = "/"

\* The character-to-token table as the specification gives it.
Digits == <<"0", "1", "2", "3", "4", "5", "6", "7", "8", "9">>

TableImage(c) ==
    IF \E d \in 1..Len(Digits) : Digits[d] = c
    THEN <<"Number", (CHOOSE d \in 1..Len(Digits) : Digits[d] = c) - 1>>
    ELSE IF c = "(" THEN <<"LParen">>
    ELSE IF c = ")" THEN <<"RParen">>
    ELSE IF c = "+" THEN <<"Plus">>
    ELSE IF c = "-" THEN <<"Minus">>
    ELSE IF c = "*" THEN <<"Times">>
    ELSE IF c = "/" THEN <<"Divide">>
    ELSE IF c = "." THEN <<"Point">>
    ELSE IF c = " " THEN <<"Whitespace">>
    ELSE <<"NaN">>

\* The last call returned, and its lookup stopped at a stored line.
Located == status = "ok" /\ found # 0

\* C1: for every n from 1 to the number of stored lines, the n-th call
\* returns the classification of the (n-1)-th stored line (entry n here).
C1_LinesInStoredOrder ==
    calls \in 1..Len(self.lines) =>
        status = "ok" /\ result = Classify(self.lines[calls])

\* C2: after n calls on a fresh Lexer the cursor `line` equals n.
C2_CursorEqualsCalls == self.line = calls

\* C3: no call of next_line reaches a failure state.
C3_NoCallPanics == status # "panicked"

\* C4: every call after the last stored line that returns, returns exactly
\* [None]; no such call returns the tokens of a stored line again.
C4_PastTheEndIsNone ==
    (status = "ok" /\ calls > Len(self.lines)) => result = <<None>>

\* C5: for a stored line whose first two characters are '/' '/', next_line
\* returns exactly [Comment], whatever follows on the line.
C5_CommentLine ==
    (Located /\ IsCommentLine(self.lines[found])) => result = <<Comment>>

C5_Witness ==
    /\ Located
    /\ IsCommentLine(self.lines[found])
    /\ Len(self.lines[found]) > 2
    /\ result = <<Comment>>

\* C6: for a non-empty stored line that does not start with "//", next_line
\* returns one token per character, in order, the i-th token being the table
\* image of the i-th character.
C6_OneTokenPerCharacter ==
    (Located /\ self.lines[found] # <<>> /\ ~IsCommentLine(self.lines[found])) =>
        /\ Len(result) = Len(self.lines[found])
        /\ \A i \in 1..Len(result) : result[i] = TableImage(self.lines[found][i])

\* A line with "//" after position 0 has been scanned character by character.
C6_Witness ==
    /\ Located
    /\ Len(self.lines[found]) = 3
    /\ self.lines[found][1] # "/"
    /\ self.lines[found][2] = "/"
    /\ self.lines[found][3] = "/"
    /\ Len(result) = 3
    /\ result[2] = <<"Divide">>
    /\ result[3] = <<"Divide">>

\* C7: for a stored line of zero characters, at whatever index, next_line
\* returns exactly [None].
C7_EmptyLine ==
    (Located /\ Len(self.lines[found]) = 0) => result = <<None>>

C7_Witness ==
    /\ Located
    /\ found > 1
    /\ Len(self.lines[found]) = 0
    /\ result = <<None>>

\* C8: the tokens a call returns for the stored line it located equal the
\* tokens every earlier call returned for a stored line of the same content
\* at another index (with other cursor values and other lines produced
\* before).
C8_ContentPure ==
    Located =>
        \A j \in 1..Len(self.lines) :
            (returned[j] # <<>> /\ self.lines[j] = self.lines[found])
                => returned[j] = result

C8_Witness ==
    /\ Located
    /\ \E j \in 1..Len(self.lines) :
          /\ j # found
          /\ returned[j] # <<>>
          /\ self.lines[j] = self.lines[found]
          /\ Len(result) > 1

\* C9: a call changes no field of the Lexer but `line`: `lines` stays the
\* sequence passed to new, and `count` and `token` stay at their initial 0.
C9_OnlyCursorChanges ==
    /\ self.count = 0 /\ self.token = 0
    /\ [][ /\ self'.lines = self.lines
           /\ self'.count = self.count
           /\ self'.token = self.token ]_vars

C9_Witness ==
    /\ status = "ok"
    /\ calls > 1
    /\ self.line # 0
    /\ Len(self.lines) > 1
    /\ self.count = 0
    /\ self.token = 0

\* C10: every result is [None], or [Comment], or has the length (>= 1) of the
\* targeted line and contains neither None nor Comment.
C10_ResultShapes ==
    (status = "ok" /\ calls > 0) =>
        \/ result = <<None>>
        \/ result = <<Comment>>
        \/ /\ found # 0
           /\ Len(result) >= 1
           /\ Len(result) = Len(self.lines[found])
           /\ \A i \in 1..Len(result) :
                 result[i] # <<"None">> /\ result[i] # <<"Comment">>

C10_Witness ==
    /\ Located
    /\ Len(result) > 1
    /\ Len(result) = Len(self.lines[found])

====
